---- MODULE Spec2Model ----
(***************************************************************************)
(* AwriteBuf (quartiq/awrite, src/lib.rs): a fixed scratch buffer `buf`    *)
(* that is filled through the synchronous embedded_io::Write and drained   *)
(* to an asynchronous sink by embedded_io_async::Write::flush, plus the    *)
(* awrite!/awriteln! macros that format into the buffer and then flush.    *)
(***************************************************************************)
EXTENDS Integers, Sequences, FiniteSets, TLC

\* ------------------------------------------------------------------ bounds
MaxCap == 2
MaxSink == 2
MaxLen == 2

\* The line terminator written by writeln! / awriteln! ("\n").
NL == 10
\* The fill byte of a fresh scratch array ([0u8; N]).
Zero == 0

VARIABLES
    buf,        \* AwriteBuf.buf: the scratch region, a sequence of Len = capacity
    sink,       \* the bytes the sink has received so far, in order
    pos,        \* AwriteBuf.pos: the cursor
    sinkKind,   \* "Vec" (growable) or "slice" (&mut [u8] of fixed length)
    sinkCap,    \* the length of a slice sink (0 and unused for a Vec)
    released,   \* into_sink has consumed the adapter
    last,       \* the last operation: its name, its result, its count (bytes a
                \* Fill or a formatting pass accepted, bytes a Flush handed over),
                \* its data (the input, the rendered text, the prefix to flush)
                \* and the number of Flush operations it issued
    fed,        \* history: every byte accepted by a Fill since construction
    okMark,     \* history: Len(fed) at the last successful Flush (0 if none)
    callMark,   \* history: Len(fed) at the last Flush issued (0 if none)
    flushFailed,\* history: some Flush has failed
    texts,      \* history: the texts rendered by the Combined calls so far, concatenated
    onlyCombinedOk, \* history: every operation so far was a Combined call that succeeded
    left        \* history: the bytes that formatting passes which failed with Sync
                \* have placed in buf: where they start in fed, whether they still
                \* wait for a successful Flush (pending), whether the last step
                \* delivered them (sent), and whether no Flush issued directly on
                \* the adapter has succeeded since the failure (noDirect)

vars == <<buf, sink, pos, sinkKind, sinkCap, released, last, fed, okMark,
          callMark, flushFailed, texts, onlyCombinedOk, left>>

\* ----------------------------------------------------------------- helpers
Min(a, b) == IF a <= b THEN a ELSE b

Drop(s, n) == SubSeq(s, n + 1, Len(s))
Take(s, n) == SubSeq(s, 1, n)

RECURSIVE Flatten(_)
Flatten(frags) == IF frags = <<>> THEN <<>> ELSE Head(frags) \o Flatten(Tail(frags))

\* The byte strings a caller passes to write, and the texts a caller has
\* rendered: the code copies bytes and never looks at their values, so one
\* string per length stands for all of them; its bytes 1, 2, ..., k differ
\* from each other, from the fill byte and from "\n", which makes every
\* position and the order of the bytes visible.
Inputs == {[i \in 1..k |-> i] : k \in 0..MaxLen}

\* What the formatting engine hands to write_str for one write!: the rendered
\* text in fragments (here a leading piece and the rest, either may be empty).
Renderings == {<<Take(t[1], t[2]), Drop(t[1], t[2])>> :
                   t \in {<<i, j>> \in Inputs \X (0..MaxLen) : j <= Len(i)}}

\* ------------------------------------------------- embedded_io primitives
\* <&mut [u8] as Write>::write on a slice with `room` bytes left:
\* amt = min(len, room); a nonempty input with amt = 0 is SliceWriteError::Full.
\* Mutant: a slice write that refuses an input that does not fit whole.
SliceWriteAllOrNothing(room, data) ==
    IF Len(data) > room
      THEN [err |-> TRUE, n |-> 0]
      ELSE [err |-> FALSE, n |-> Len(data)]

\* Mutant: a slice write without the Full check, Ok(0) on a full slice.
SliceWriteNoFull(room, data) ==
    [err |-> FALSE, n |-> Min(Len(data), room)]

\* Mutant: a slice write that reports Full on a full slice whatever the input.
SliceWriteFullOnEmpty(room, data) ==
    LET amt == Min(Len(data), room)
    IN  IF room = 0
          THEN [err |-> TRUE, n |-> 0]
          ELSE [err |-> FALSE, n |-> amt]

SliceWrite(room, data) ==
    LET amt == Min(Len(data), room)
    IN  IF data # <<>> /\ amt = 0
          THEN [err |-> TRUE, n |-> 0]
          ELSE [err |-> FALSE, n |-> amt]

\* copy_from_slice of the n leading bytes of data to b[p..p+n] (0-based).
CopyInto(b, p, data, n) ==
    [i \in 1..Len(b) |-> IF p < i /\ i <= p + n THEN data[i - p] ELSE b[i]]

\* ------------------------------------------------------ AwriteBuf::write
\* The effect of one write on (buf, pos): the slice write at buf[pos..],
\* the error mapped to Error::Sync, pos advanced by the count written.
\* Mutant: the slice is taken at buf[0..] instead of buf[pos..].
WriteAtStart(b, p, data) ==
    LET r == SliceWrite(Len(b) - p, data)
    IN  IF r.err
          THEN [buf |-> b, pos |-> p, res |-> "Sync", n |-> 0]
          ELSE [buf |-> CopyInto(b, 0, data, r.n), pos |-> p + r.n,
                res |-> "Ok", n |-> r.n]

\* Mutant: pos advanced by the length of the input, not by the count written.
WriteAdvanceLen(b, p, data) ==
    LET r == SliceWrite(Len(b) - p, data)
    IN  IF r.err
          THEN [buf |-> b, pos |-> p, res |-> "Sync", n |-> 0]
          ELSE [buf |-> CopyInto(b, p, data, r.n), pos |-> p + Len(data),
                res |-> "Ok", n |-> r.n]

\* Mutant: an input that does not fit whole is refused and nothing is copied.
WriteAllOrNothing(b, p, data) ==
    IF Len(data) > Len(b) - p
      THEN [buf |-> b, pos |-> p, res |-> "Sync", n |-> 0]
      ELSE [buf |-> CopyInto(b, p, data, Len(data)), pos |-> p + Len(data),
            res |-> "Ok", n |-> Len(data)]

Write(b, p, data) ==
    LET r == SliceWrite(Len(b) - p, data)
    IN  IF r.err
          THEN [buf |-> b, pos |-> p, res |-> "Sync", n |-> 0]
          ELSE [buf |-> CopyInto(b, p, data, r.n), pos |-> p + r.n,
                res |-> "Ok", n |-> r.n]

\* embedded_io::Write::write_all, as write_str calls it: write until the input
\* is empty; an error ends it; Ok(0) on a nonempty input panics.
\* acc collects the bytes the writes reported as accepted.
RECURSIVE WriteAll(_, _, _, _)
WriteAll(b, p, data, acc) ==
    IF data = <<>>
      THEN [buf |-> b, pos |-> p, res |-> "Ok", acc |-> acc]
      ELSE LET w == Write(b, p, data)
           IN  IF w.res # "Ok"
                 THEN [buf |-> w.buf, pos |-> w.pos, res |-> w.res, acc |-> acc]
                 ELSE IF w.n = 0
                   THEN [buf |-> w.buf, pos |-> w.pos, res |-> "Panic", acc |-> acc]
                   ELSE WriteAll(w.buf, w.pos, Drop(data, w.n),
                                 acc \o Take(data, w.n))

\* write_fmt behind write!/writeln!: one write_all per fragment, stopping at
\* the first error.
RECURSIVE WriteFmt(_, _, _, _)
WriteFmt(b, p, frags, acc) ==
    IF frags = <<>>
      THEN [buf |-> b, pos |-> p, res |-> "Ok", acc |-> acc]
      ELSE LET w == WriteAll(b, p, Head(frags), acc)
           IN  IF w.res # "Ok"
                 THEN w
                 ELSE WriteFmt(w.buf, w.pos, Tail(frags), w.acc)

\* ----------------------------------------------------------------- sink
\* One write of the sink: a Vec takes everything, a slice what fits.
SinkWrite(kind, cap, s, data) ==
    IF kind = "Vec"
      THEN [err |-> FALSE, n |-> Len(data)]
      ELSE SliceWrite(cap - Len(s), data)

\* embedded_io_async::Write::write_all on the sink.
RECURSIVE SinkWriteAll(_, _, _, _)

\* Mutant: a write_all that reports a full slice before it looks at the input.
SinkWriteAllFullFirst(kind, cap, s, data) ==
    IF kind = "slice" /\ cap - Len(s) = 0
      THEN [sink |-> s, res |-> "Async"]
      ELSE IF data = <<>>
        THEN [sink |-> s, res |-> "Ok"]
        ELSE LET r == SinkWrite(kind, cap, s, data)
             IN  IF r.err
                   THEN [sink |-> s, res |-> "Async"]
                   ELSE SinkWriteAll(kind, cap, s \o Take(data, r.n),
                                     Drop(data, r.n))

SinkWriteAll(kind, cap, s, data) ==
    IF data = <<>>
      THEN [sink |-> s, res |-> "Ok"]
      ELSE LET r == SinkWrite(kind, cap, s, data)
           IN  IF r.err
                 THEN [sink |-> s, res |-> "Async"]
                 ELSE IF r.n = 0
                   THEN [sink |-> s, res |-> "Panic"]
                   ELSE SinkWriteAll(kind, cap, s \o Take(data, r.n),
                                     Drop(data, r.n))

\* <AwriteBuf as embedded_io_async::Write>::flush on (buf, pos, sink):
\* write_all of buf[..pos]; pos = 0 only after it succeeded.
\* Mutant: the whole scratch region is sent, not buf[..pos].
FlushWholeBuf(b, p, kind, cap, s) ==
    LET r == SinkWriteAll(kind, cap, s, b)
    IN  IF r.res = "Ok"
          THEN [pos |-> 0, sink |-> r.sink, res |-> "Ok", offered |-> b]
          ELSE [pos |-> p, sink |-> r.sink, res |-> r.res, offered |-> b]

\* Mutant: the sink's error is wrapped as Error::Sync.
FlushSyncTag(b, p, kind, cap, s) ==
    LET r == SinkWriteAll(kind, cap, s, Take(b, p))
    IN  IF r.res = "Ok"
          THEN [pos |-> 0, sink |-> r.sink, res |-> "Ok", offered |-> Take(b, p)]
          ELSE [pos |-> p, sink |-> r.sink, res |-> "Sync", offered |-> Take(b, p)]

\* Mutant: pos is reset before the outcome of write_all is looked at.
FlushResetAlways(b, p, kind, cap, s) ==
    LET r == SinkWriteAll(kind, cap, s, Take(b, p))
    IN  [pos |-> 0, sink |-> r.sink, res |-> r.res, offered |-> Take(b, p)]

\* Mutant: pos is not reset after a successful write_all.
FlushNoReset(b, p, kind, cap, s) ==
    LET r == SinkWriteAll(kind, cap, s, Take(b, p))
    IN  [pos |-> p, sink |-> r.sink, res |-> r.res, offered |-> Take(b, p)]

\* Mutant: after a failed write_all pos is lowered by the bytes the sink took.
FlushKeepRest(b, p, kind, cap, s) ==
    LET r == SinkWriteAll(kind, cap, s, Take(b, p))
    IN  IF r.res = "Ok"
          THEN [pos |-> 0, sink |-> r.sink, res |-> "Ok", offered |-> Take(b, p)]
          ELSE [pos |-> p - (Len(r.sink) - Len(s)), sink |-> r.sink,
                res |-> r.res, offered |-> Take(b, p)]

Flush(b, p, kind, cap, s) ==
    LET r == SinkWriteAll(kind, cap, s, Take(b, p))
    IN  IF r.res = "Ok"
          THEN [pos |-> 0, sink |-> r.sink, res |-> "Ok", offered |-> Take(b, p)]
          ELSE [pos |-> p, sink |-> r.sink, res |-> r.res, offered |-> Take(b, p)]

\* A Vec sink is kept within the model's bound.
VecFits(n) == sinkKind = "Vec" => Len(sink) + n <= MaxSink

\* -------------------------------------------------------------- the state
Op(name, res, n, data, flushes) ==
    [op |-> name, res |-> res, n |-> n, data |-> data, flushes |-> flushes]

\* The bookkeeping of `left`.
NoLeft == [at |-> 0, bytes |-> <<>>, pending |-> FALSE, sent |-> FALSE,
           noDirect |-> FALSE]

\* A step that neither fails a formatting pass nor flushes with success.
LeftKept(l) ==
    IF l.sent THEN [l EXCEPT !.at = 0, !.bytes = <<>>, !.sent = FALSE] ELSE l

\* A formatting pass has failed with Sync after the bytes acc were accepted.
LeftFailed(l, at, acc) ==
    [at |-> IF l.pending THEN l.at ELSE at,
     bytes |-> (IF l.pending THEN l.bytes ELSE <<>>) \o acc,
     pending |-> TRUE, sent |-> FALSE, noDirect |-> TRUE]

\* A Flush has succeeded, issued directly on the adapter or by a Combined call.
LeftFlushed(l, direct) ==
    [at |-> IF l.pending THEN l.at ELSE 0,
     bytes |-> IF l.pending THEN l.bytes ELSE <<>>,
     pending |-> FALSE, sent |-> l.pending,
     noDirect |-> l.noDirect /\ ~direct]

\* AwriteBuf::new(buf, sink): pos = 0, over a zeroed scratch array and an
\* empty Vec or a slice.
Init ==
    /\ \E cap \in 0..MaxCap : buf = [i \in 1..cap |-> Zero]
    /\ pos = 0
    /\ sink = <<>>
    /\ \/ sinkKind = "Vec" /\ sinkCap = 0
       \/ sinkKind = "slice" /\ sinkCap \in 0..MaxSink
    /\ released = FALSE
    /\ last = Op("new", "Ok", 0, <<>>, 0)
    /\ fed = <<>>
    /\ okMark = 0
    /\ callMark = 0
    /\ flushFailed = FALSE
    /\ texts = <<>>
    /\ onlyCombinedOk = TRUE
    /\ left = NoLeft

\* Mutant: into_sink hands the pending bytes to the sink before returning it.
into_sink_flushing ==
    /\ ~released
    /\ released' = TRUE
    /\ sink' = sink \o Take(buf, pos)
    /\ last' = Op("into_sink", "Ok", 0, <<>>, 0)
    /\ onlyCombinedOk' = FALSE
    /\ texts' = <<>>
    /\ left' = LeftKept(left)
    /\ UNCHANGED <<buf, pos, sinkKind, sinkCap, fed, okMark, callMark,
                   flushFailed>>

\* AwriteBuf::into_sink: the adapter is consumed, the sink handed back as is.
into_sink ==
    /\ ~released
    /\ released' = TRUE
    /\ last' = Op("into_sink", "Ok", 0, <<>>, 0)
    /\ onlyCombinedOk' = FALSE
    /\ texts' = <<>>
    /\ left' = LeftKept(left)
    /\ UNCHANGED <<buf, sink, pos, sinkKind, sinkCap, fed, okMark, callMark,
                   flushFailed>>

\* The state change of a Fill, shared by the two write methods.
Fill(name, data) ==
    LET w == Write(buf, pos, data)
    IN  /\ ~released
        /\ buf' = w.buf
        /\ pos' = w.pos
        /\ last' = Op(name, w.res, w.n, data, 0)
        /\ fed' = fed \o Take(data, w.n)
        /\ onlyCombinedOk' = FALSE
        /\ texts' = <<>>
        /\ left' = LeftKept(left)
        /\ UNCHANGED <<sink, sinkKind, sinkCap, released, okMark, callMark,
                       flushFailed>>

\* <AwriteBuf as embedded_io::Write>::write
write(data) == Fill("write", data)

\* Mutant: the asynchronous write also passes the accepted bytes to the sink.
async_write_through(data) ==
    LET w == Write(buf, pos, data)
    IN  /\ ~released
        /\ buf' = w.buf
        /\ pos' = w.pos
        /\ sink' = sink \o Take(data, w.n)
        /\ last' = Op("async_write", w.res, w.n, data, 0)
        /\ fed' = fed \o Take(data, w.n)
        /\ onlyCombinedOk' = FALSE
        /\ texts' = <<>>
        /\ left' = LeftKept(left)
        /\ UNCHANGED <<sinkKind, sinkCap, released, okMark, callMark,
                       flushFailed>>

\* <AwriteBuf as embedded_io_async::Write>::write delegates to the above.
async_write(data) == Fill("async_write", data)

\* Mutant: the synchronous flush drops the pending bytes (pos = 0).
flush_draining ==
    /\ ~released
    /\ pos' = 0
    /\ last' = Op("flush", "Ok", 0, <<>>, 0)
    /\ onlyCombinedOk' = FALSE
    /\ texts' = <<>>
    /\ left' = LeftKept(left)
    /\ UNCHANGED <<buf, sink, sinkKind, sinkCap, released, fed, okMark,
                   callMark, flushFailed>>

\* <AwriteBuf as embedded_io::Write>::flush: Ok(()) and nothing else.
flush ==
    /\ ~released
    /\ last' = Op("flush", "Ok", 0, <<>>, 0)
    /\ onlyCombinedOk' = FALSE
    /\ texts' = <<>>
    /\ left' = LeftKept(left)
    /\ UNCHANGED <<buf, sink, pos, sinkKind, sinkCap, released, fed, okMark,
                   callMark, flushFailed>>

\* <AwriteBuf as embedded_io_async::Write>::flush
async_flush ==
    LET f == Flush(buf, pos, sinkKind, sinkCap, sink)
    IN  /\ ~released
        /\ VecFits(pos)
        /\ pos' = f.pos
        /\ sink' = f.sink
        /\ last' = Op("async_flush", f.res, Len(f.sink) - Len(sink), f.offered, 1)
        /\ okMark' = IF f.res = "Ok" THEN Len(fed) ELSE okMark
        /\ callMark' = Len(fed)
        /\ flushFailed' = (flushFailed \/ f.res # "Ok")
        /\ onlyCombinedOk' = FALSE
        /\ texts' = <<>>
        /\ left' = IF f.res = "Ok" THEN LeftFlushed(left, TRUE) ELSE LeftKept(left)
        /\ UNCHANGED <<buf, sinkKind, sinkCap, released, fed>>

\* Mutant: the flush is issued whatever write_fmt returned.
CombinedAlwaysFlush(name, frags) ==
    LET w == WriteFmt(buf, pos, frags, <<>>)
        f == Flush(w.buf, w.pos, sinkKind, sinkCap, sink)
        ok == w.res = "Ok"
        res == IF ok THEN f.res ELSE w.res
    IN  /\ ~released
        /\ VecFits(w.pos)
        /\ buf' = w.buf
        /\ pos' = f.pos
        /\ sink' = f.sink
        /\ last' = Op(name, res, Len(w.acc), Flatten(frags), 1)
        /\ fed' = fed \o w.acc
        /\ okMark' = IF f.res = "Ok" THEN Len(fed') ELSE okMark
        /\ callMark' = Len(fed')
        /\ flushFailed' = (flushFailed \/ f.res # "Ok")
        /\ onlyCombinedOk' = (onlyCombinedOk /\ res = "Ok")
        /\ texts' = IF onlyCombinedOk' THEN texts \o Flatten(frags) ELSE <<>>
        /\ left' = IF f.res = "Ok" THEN LeftFlushed(left, FALSE)
                                   ELSE LeftKept(left)
        /\ UNCHANGED <<sinkKind, sinkCap, released>>

\* Mutant: a failed formatting pass puts pos back where the call found it.
CombinedRollback(name, frags) ==
    LET w == WriteFmt(buf, pos, frags, <<>>)
        f == Flush(w.buf, w.pos, sinkKind, sinkCap, sink)
        ok == w.res = "Ok"
        res == IF ok THEN f.res ELSE w.res
    IN  /\ ~released
        /\ VecFits(w.pos)
        /\ buf' = w.buf
        /\ pos' = IF ok THEN f.pos ELSE pos
        /\ sink' = IF ok THEN f.sink ELSE sink
        /\ last' = Op(name, res, Len(w.acc), Flatten(frags),
                      IF ok THEN 1 ELSE 0)
        /\ fed' = fed \o w.acc
        /\ okMark' = IF ok /\ f.res = "Ok" THEN Len(fed') ELSE okMark
        /\ callMark' = IF ok THEN Len(fed') ELSE callMark
        /\ flushFailed' = (flushFailed \/ (ok /\ f.res # "Ok"))
        /\ onlyCombinedOk' = (onlyCombinedOk /\ res = "Ok")
        /\ texts' = IF onlyCombinedOk' THEN texts \o Flatten(frags) ELSE <<>>
        /\ left' = IF ~ok THEN LeftFailed(left, Len(fed), w.acc)
                   ELSE IF f.res = "Ok" THEN LeftFlushed(left, FALSE)
                   ELSE LeftKept(left)
        /\ UNCHANGED <<sinkKind, sinkCap, released>>

\* The body shared by awrite! and awriteln!: write_fmt of the fragments, then
\* flush if and only if write_fmt returned Ok; otherwise its error is returned.
Combined(name, frags) ==
    LET w == WriteFmt(buf, pos, frags, <<>>)
        f == Flush(w.buf, w.pos, sinkKind, sinkCap, sink)
        ok == w.res = "Ok"
        res == IF ok THEN f.res ELSE w.res
    IN  /\ ~released
        /\ VecFits(w.pos)
        /\ buf' = w.buf
        /\ pos' = IF ok THEN f.pos ELSE w.pos
        /\ sink' = IF ok THEN f.sink ELSE sink
        /\ last' = Op(name, res, Len(w.acc), Flatten(frags),
                      IF ok THEN 1 ELSE 0)
        /\ fed' = fed \o w.acc
        /\ okMark' = IF ok /\ f.res = "Ok" THEN Len(fed') ELSE okMark
        /\ callMark' = IF ok THEN Len(fed') ELSE callMark
        /\ flushFailed' = (flushFailed \/ (ok /\ f.res # "Ok"))
        /\ onlyCombinedOk' = (onlyCombinedOk /\ res = "Ok")
        /\ texts' = IF onlyCombinedOk' THEN texts \o Flatten(frags) ELSE <<>>
        /\ left' = IF ~ok THEN LeftFailed(left, Len(fed), w.acc)
                   ELSE IF f.res = "Ok" THEN LeftFlushed(left, FALSE)
                   ELSE LeftKept(left)
        /\ UNCHANGED <<sinkKind, sinkCap, released>>

\* awrite!(aw, ...): write! then flush.
awrite(frags) == Combined("awrite", frags)

\* Mutant: awriteln! formats with write!, without the terminator.
awriteln_no_nl(frags) == Combined("awriteln", frags)

\* awriteln!(aw, ...): writeln! renders the text and then "\n", then flush.
awriteln(frags) == Combined("awriteln", Append(frags, <<NL>>))

\* awriteln!(aw) is awrite!(aw, "\n").
awriteln_bare == Combined("awriteln_bare", << <<NL>> >>)

Next ==
    \/ \E data \in Inputs : write(data)
    \/ \E data \in Inputs : async_write(data)
    \/ flush
    \/ async_flush
    \/ \E frags \in Renderings : awrite(frags)
    \/ \E frags \in Renderings : awriteln(frags)
    \/ awriteln_bare
    \/ into_sink

Spec == Init /\ [][Next]_vars

\* ------------------------------------------------------------ properties
FillOps == {"write", "async_write"}
CombinedOps == {"awrite", "awriteln", "awriteln_bare"}

\* C1: a successful asynchronous flush hands the sink exactly buf[0..pos),
\* in order, and leaves pos = 0; and as long as no Flush has failed, the
\* sink holds exactly the bytes the Fills had accepted up to the last Flush.
C1_FlushTransmitsPrefix ==
    [][ /\ (last'.op = "async_flush" /\ last'.res = "Ok")
            => (sink' = sink \o Take(buf, pos) /\ pos' = 0)
        /\ ~flushFailed' => sink' = Take(fed', callMark') ]_vars

\* A successful flush of a part-filled scratch region, after an earlier one.
C1_Witness ==
    /\ last.op = "async_flush" /\ last.res = "Ok"
    /\ 0 < last.n /\ last.n < Len(buf)
    /\ Len(sink) > last.n
    /\ pos = 0 /\ ~flushFailed

\* C2: buf[0..pos) is the concatenation of the bytes the Fills accepted since
\* the last successful Flush (since construction if there was none), and pos
\* is their number.
C2_PrefixIsAccepted ==
    /\ pos = Len(fed) - okMark
    /\ Take(buf, pos) = Drop(fed, okMark)

\* Two Fills after a successful flush have filled the scratch region.
C2_Witness ==
    /\ okMark > 0 /\ Len(fed) - okMark = 2
    /\ last.op = "write" /\ last.res = "Ok" /\ last.n = 1
    /\ pos = Len(buf)

\* C3: 0 <= pos <= capacity in every state.
C3_CursorInBounds == pos \in 0..Len(buf)

\* A Fill was refused on a full scratch region after a failed flush.
C3_Witness ==
    /\ pos = Len(buf) /\ pos > 0
    /\ last.op = "write" /\ last.res = "Sync"
    /\ flushFailed

\* C4: a Combined call issues one Flush if the rendered text (with the
\* terminator of awriteln!) fits in buf[pos..] and none otherwise; when it
\* does not fit the call returns the formatting error (Sync) and the sink is
\* left as it was.
C4_FlushIffFormatted ==
    [][ last'.op \in CombinedOps =>
          LET fits == Len(last'.data) <= Len(buf) - pos
          IN  /\ last'.flushes = (IF fits THEN 1 ELSE 0)
              /\ fits <=> last'.n = Len(last'.data)
              /\ ~fits => (last'.res = "Sync" /\ sink' = sink) ]_vars

\* A text longer than the whole scratch region: Sync, no flush, empty sink.
C4_Witness ==
    /\ last.op = "awrite" /\ last.res = "Sync" /\ last.flushes = 0
    /\ Len(last.data) > Len(buf) /\ Len(buf) > 0
    /\ sink = <<>> /\ fed = Take(last.data, Len(buf))

\* C5: a Combined call returns Sync exactly when the rendered text does not
\* fit in the scratch region, and Async exactly when it fits and the sink
\* cannot take the pending prefix.
C5_ErrorByOrigin ==
    [][ last'.op \in CombinedOps =>
          LET fits == Len(last'.data) <= Len(buf) - pos
              sinkFull == /\ sinkKind = "slice"
                          /\ pos + Len(last'.data) > sinkCap - Len(sink)
          IN  /\ last'.res = "Sync" <=> ~fits
              /\ last'.res = "Async" <=> (fits /\ sinkFull)
              /\ last'.res = "Ok" <=> (fits /\ ~sinkFull) ]_vars

\* The text fitted in the scratch region, and the slice sink, filled by an
\* earlier call, rejected it.
C5_Witness ==
    /\ last.op = "awriteln" /\ last.res = "Async"
    /\ sinkKind = "slice" /\ sinkCap > 0 /\ Len(sink) = sinkCap
    /\ pos = Len(last.data) /\ pos <= Len(buf)
    /\ okMark = sinkCap

\* C6: a Fill with 0 < room < len(input) returns room, copies that many
\* leading bytes to buf[pos..capacity), keeps buf[0..pos) and ends with
\* pos = capacity; with room >= len(input) it copies the whole input and
\* returns its length.
C6_PartialFill ==
    [][ last'.op \in FillOps =>
          LET room == Len(buf) - pos
              d == last'.data
          IN  /\ (0 < room /\ room < Len(d)) =>
                    /\ last'.res = "Ok" /\ last'.n = room
                    /\ Len(buf') = Len(buf)
                    /\ SubSeq(buf', pos + 1, Len(buf)) = Take(d, room)
                    /\ Take(buf', pos) = Take(buf, pos)
                    /\ pos' = Len(buf)
              /\ room >= Len(d) =>
                    /\ last'.res = "Ok" /\ last'.n = Len(d)
                    /\ Len(buf') = Len(buf)
                    /\ SubSeq(buf', pos + 1, pos + Len(d)) = d
                    /\ Take(buf', pos) = Take(buf, pos)
                    /\ Drop(buf', pos + Len(d)) = Drop(buf, pos + Len(d))
                    /\ pos' = pos + Len(d) ]_vars

\* A partial write behind an earlier byte: one of two bytes was taken.
C6_Witness ==
    /\ last.op = "write" /\ last.res = "Ok"
    /\ Len(last.data) = 2 /\ last.n = 1
    /\ pos = Len(buf) /\ pos = 2
    /\ buf[2] = last.data[1]

\* C7: a Fill of a nonempty input on a full scratch region fails with Sync,
\* copies nothing and leaves pos, buf and the sink as they were.
C7_FullFillFails ==
    [][ (last'.op \in FillOps /\ pos = Len(buf) /\ last'.data # <<>>) =>
          /\ last'.res = "Sync" /\ last'.n = 0
          /\ pos' = pos /\ buf' = buf /\ sink' = sink ]_vars

\* A Fill refused on a scratch region that earlier Fills had filled.
C7_Witness ==
    /\ last.op = "write" /\ last.res = "Sync" /\ last.data # <<>>
    /\ pos = Len(buf) /\ Len(buf) = 2
    /\ Len(fed) - okMark = 2

\* C8: pos decreases only in a step whose asynchronous Flush succeeded (issued
\* directly or by a Combined call), and then to 0.
C8_OnlyFlushResets ==
    [][ pos' < pos =>
          /\ last'.op \in CombinedOps \cup {"async_flush"}
          /\ last'.res = "Ok" /\ last'.flushes = 1
          /\ pos' = 0 ]_vars

\* A failed asynchronous flush has left the cursor where it was.
C8_Witness ==
    /\ last.op = "async_flush" /\ last.res = "Async"
    /\ pos > 0 /\ pos = Len(last.data)

\* C9: while every operation on the adapter has been a Combined call that
\* succeeded, pos = 0 and the sink holds the rendered texts in call order.
C9_CombinedConcatenates ==
    onlyCombinedOk => (pos = 0 /\ sink = texts)

\* Two successful calls have delivered more bytes than the scratch region holds.
C9_Witness ==
    /\ onlyCombinedOk /\ last.op = "awrite"
    /\ Len(buf) > 0 /\ Len(sink) > Len(buf)
    /\ Len(last.data) < Len(sink) /\ last.data # <<>>

\* C10: an asynchronous flush with pos = 0 succeeds, hands the sink nothing
\* and leaves pos at 0, also when a slice sink has no room left.
C10_EmptyFlushOk ==
    (last.op = "async_flush" /\ last.data = <<>>) =>
        (last.res = "Ok" /\ last.n = 0 /\ pos = 0)

\* An empty flush on a slice sink that an earlier flush had filled.
C10_Witness ==
    /\ last.op = "async_flush" /\ last.data = <<>> /\ last.res = "Ok"
    /\ sinkKind = "slice" /\ sinkCap > 0 /\ Len(sink) = sinkCap

\* C11: a Combined call that fails with Sync keeps the bytes its formatting
\* pass has placed: pos is raised by their number, never put back, and they
\* follow the earlier prefix in buf; the next successful Flush hands the sink
\* the earlier prefix, then these bytes, then whatever was filled after them.
C11_LeftoverStays ==
    [][ /\ (last'.op \in CombinedOps /\ last'.res = "Sync") =>
              /\ pos' = pos + last'.n
              /\ Take(buf', pos') = Take(buf, pos) \o Take(last'.data, last'.n)
              /\ sink' = sink
        /\ (left.pending /\ last'.flushes = 1 /\ last'.res = "Ok") =>
              sink' = sink \o SubSeq(fed, okMark + 1, left.at) \o left.bytes
                           \o Drop(fed', left.at + Len(left.bytes)) ]_vars

\* A direct flush has delivered, behind an earlier byte, the byte that a
\* failed formatting pass had left.
C11_Witness ==
    /\ left.sent /\ left.bytes # <<>> /\ left.at > 0
    /\ last.op = "async_flush" /\ last.res = "Ok"
    /\ sink = Take(fed, left.at) \o left.bytes
    /\ pos = 0

\* C12: awriteln! with a text fills the text and then one "\n" in the same
\* pass and issues one Flush when they fit; without a text it fills the "\n"
\* alone; on success from an empty scratch region the sink grows by
\* text + "\n", by "\n" alone. (last.data is what the macro rendered; the
\* texts of the callers are the Inputs, none of which holds a "\n".)
C12_LineTerminated ==
    [][ /\ last'.op = "awriteln" =>
              LET t == last'.data
                  room == Len(buf) - pos
              IN  /\ t # <<>> /\ t[Len(t)] = NL
                  /\ Take(t, Len(t) - 1) \in Inputs
                  /\ fed' = fed \o Take(t, Min(Len(t), room))
                  /\ last'.flushes = (IF Len(t) <= room THEN 1 ELSE 0)
                  /\ (pos = 0 /\ last'.res = "Ok") => sink' = sink \o t
        /\ last'.op = "awriteln_bare" =>
              LET room == Len(buf) - pos
              IN  /\ last'.data = <<NL>>
                  /\ fed' = fed \o Take(<<NL>>, Min(1, room))
                  /\ last'.flushes = (IF 1 <= room THEN 1 ELSE 0)
                  /\ (pos = 0 /\ last'.res = "Ok") => sink' = sink \o <<NL>> ]_vars

\* A one-byte text and its terminator have reached the sink.
C12_Witness ==
    /\ last.op = "awriteln" /\ last.res = "Ok" /\ last.flushes = 1
    /\ Len(sink) = 2 /\ sink[2] = NL /\ sink[1] # NL
    /\ sink = fed /\ pos = 0

\* C13: a Fill, through either write method, leaves the sink as it was; the
\* asynchronous write changes buf and pos and returns what the synchronous
\* write does.
C13_FillLeavesSink ==
    [][ /\ last'.op \in FillOps =>
              (sink' = sink /\ sinkKind' = sinkKind /\ sinkCap' = sinkCap)
        /\ \A data \in Inputs : async_write(data) =>
              LET w == Write(buf, pos, data)
              IN  /\ buf' = w.buf /\ pos' = w.pos
                  /\ last'.res = w.res /\ last'.n = w.n
                  /\ sink' = sink ]_vars

\* An asynchronous write has taken part of its input; the sink is empty.
C13_Witness ==
    /\ last.op = "async_write" /\ last.res = "Ok"
    /\ 0 < last.n /\ last.n < Len(last.data)
    /\ pos = Len(buf) /\ sink = <<>>

\* C14: into_sink hands the sink back with the bytes it had received and
\* nothing more, whatever pos is; the bytes in buf[0..pos) are never sent.
C14_IntoSinkSendsNothing ==
    [][ /\ last'.op = "into_sink" =>
              (sink' = sink /\ released' /\ pos' = pos /\ buf' = buf)
        /\ released => sink' = sink ]_vars

\* The adapter was released with pending bytes; the sink never got them.
C14_Witness ==
    /\ released /\ last.op = "into_sink"
    /\ pos = Len(buf) /\ pos > 1
    /\ Len(sink) > 0 /\ sink = Take(fed, okMark) /\ Len(fed) > okMark

\* C15: a Fill with an empty input returns Ok(0) and leaves pos, buf and the
\* sink as they were, also on a full scratch region and on one of capacity 0.
C15_EmptyFill ==
    [][ (last'.op \in FillOps /\ last'.data = <<>>) =>
          /\ last'.res = "Ok" /\ last'.n = 0
          /\ pos' = pos /\ buf' = buf /\ sink' = sink ]_vars

\* An empty Fill on a scratch region that earlier Fills had filled.
C15_Witness ==
    /\ last.op = "write" /\ last.data = <<>> /\ last.res = "Ok"
    /\ pos = Len(buf) /\ Len(buf) > 0

\* C16 as claimed: after a Combined call failed with Sync the scratch region
\* is full, and every later Combined call that renders at least one byte
\* fails with Sync and delivers nothing until a Flush issued directly on the
\* adapter has succeeded.
C16_Original ==
    [][ /\ (last'.op \in CombinedOps /\ last'.res = "Sync") => pos' = Len(buf')
        /\ (left.noDirect /\ last'.op \in CombinedOps /\ last'.data # <<>>) =>
              (last'.res = "Sync" /\ sink' = sink) ]_vars

\* C16 as amended: the same until any Flush has succeeded, issued directly on
\* the adapter or by a Combined call that renders no byte.
C16_FullUntilFlushed ==
    [][ /\ (last'.op \in CombinedOps /\ last'.res = "Sync") => pos' = Len(buf')
        /\ (left.pending /\ last'.op \in CombinedOps /\ last'.data # <<>>) =>
              (last'.res = "Sync" /\ sink' = sink /\ pos' = pos) ]_vars

\* A second Combined call has failed on the bytes the first one had left.
C16_Witness ==
    /\ left.pending /\ left.bytes # <<>>
    /\ last.op \in CombinedOps /\ last.res = "Sync"
    /\ last.data # <<>> /\ last.n = 0
    /\ pos = Len(buf) /\ sink = <<>>

\* C17: a Flush that fails with Async leaves pos and buf as they were, the
\* sink holding what it took of the prefix; a Flush after a failed one offers
\* the whole prefix buf[0..pos) again, and a Combined call places its text
\* behind the pending bytes.
C17_FailedFlushKeeps ==
    [][ /\ (last'.op = "async_flush" /\ last'.res = "Async") =>
              /\ pos' = pos /\ buf' = buf
              /\ last'.n < pos
              /\ sink' = sink \o Take(buf, last'.n)
        /\ (last'.op \in CombinedOps /\ last'.res = "Async") =>
              /\ pos' = pos + Len(last'.data)
              /\ Take(buf', pos') = Take(buf, pos) \o last'.data
        /\ (last.res = "Async" /\ last'.op = "async_flush") =>
              last'.data = Take(buf, pos)
        /\ (last.res = "Async" /\ last'.op \in CombinedOps) =>
              Take(buf', pos + last'.n) =
                  Take(buf, pos) \o Take(last'.data, last'.n) ]_vars

\* A second flush has offered the whole prefix again, the first byte of which
\* the sink had taken in the failed attempt.
C17_Witness ==
    /\ last.op = "async_flush" /\ last.res = "Async" /\ last.n = 0
    /\ last.data = Take(buf, pos) /\ pos = 2
    /\ Len(sink) = 1 /\ sink[1] = buf[1]
    /\ okMark = 0

\* C18: the synchronous flush returns Ok and leaves pos, buf and the sink as
\* they were; the sink receives bytes only in a step that issues the
\* asynchronous Flush.
C18_SyncFlushNoOp ==
    [][ /\ last'.op = "flush" =>
              /\ last'.res = "Ok"
              /\ pos' = pos /\ buf' = buf /\ sink' = sink
        /\ sink' # sink =>
              (last'.flushes = 1 /\ last'.op \in CombinedOps \cup {"async_flush"}) ]_vars

\* A synchronous flush with pending bytes: they stay, the sink is empty.
C18_Witness ==
    /\ last.op = "flush" /\ last.res = "Ok"
    /\ pos > 0 /\ pos = Len(fed) /\ sink = <<>>

====
